---- MODULE Spec2Model ----
(***************************************************************************)
(* A model of pysubs (src/pysubs.py): the OpenSubtitles hash of a video    *)
(* file, the search-by-hash / search-by-filename fallback, the selection   *)
(* of the most downloaded record and the download-and-save sequence.       *)
(*                                                                         *)
(* Python values are modelled as follows.  An optional value (X or None)   *)
(* is a sequence of length at most one: None is <<>>, Some(x) is <<x>>.    *)
(* A str is a sequence of one-character strings.  A bytes object is a      *)
(* sequence of integers in 0..255.                                         *)
(*                                                                         *)
(* TLC's integers are 32 bits wide, so the hash is modelled with words of  *)
(* bytesize = 2 bytes instead of 8 and windows of Chunk = 4 bytes instead  *)
(* of 65536; the accumulator is then 16 bits wide (Mask) and is printed    *)
(* with HexWidth = 4 digits.  The structure of the computation (seed,      *)
(* little-endian signed words, mask after every addition, seek to          *)
(* max(0, size - window)) is that of the source.                           *)
(*                                                                         *)
(* In src/pysubs.py every definition after setup_logging, the              *)
(* `if __name__ == "__main__"` line included, is indented under            *)
(* setup_logging.  The model takes a call of main() as the run and the     *)
(* functions as main calls them.                                           *)
(***************************************************************************)
EXTENDS Integers, Sequences, FiniteSets, TLC

VARIABLES
    \* ---- one run of main() ----
    pc,             \* position of the run in main / download_and_save_subtitle
    video_path,     \* args.video_path, a path <<stem, extension>>
    video,          \* byte content of the video file
    fs,             \* the subtitle files beside the video: path -> None | Some(text)
    fs0,            \* fs when the run started
    movie_hash,     \* main's movie_hash
    results,        \* main's results (the last search's return value)
    subtitle_data,  \* main's subtitle_data: None | Some(record)
    search_method,  \* main's search_method
    file_id,        \* download_and_save_subtitle's file_id
    download_link,  \* download_and_save_subtitle's download_link
    sub_content,    \* download_and_save_subtitle's sub_content
    requests_log,   \* the HTTP requests issued so far, in order
    steps,          \* the steps taken so far: hash, requests and file write, in order
    hash_count,     \* number of records the hash search returned (-1: not issued)
    env,            \* what the collaborators answered: probe, searches, resolve, fetch, write
    \* ---- the fingerprint on its own ----
    hpc,            \* position of the fingerprint experiment
    hfile,          \* a file
    hfp,            \* generate_opensubtitles_hash of hfile
    hfile2,         \* hfile with one byte changed
    hfp2,           \* generate_opensubtitles_hash of hfile2
    \* ---- get_best_subtitle on its own ----
    spc,            \* position of the selection experiment
    slist,          \* a list of records
    sbest           \* get_best_subtitle(slist): [raised, value]

mainVars == <<pc, video_path, video, fs, fs0, movie_hash, results, subtitle_data,
              search_method, file_id, download_link, sub_content, requests_log,
              steps, hash_count, env>>
hashVars == <<hpc, hfile, hfp, hfile2, hfp2>>
selVars == <<spc, slist, sbest>>
vars == <<mainVars, hashVars, selVars>>

None == <<>>
Some(x) == <<x>>

Max2(a, b) == IF a >= b THEN a ELSE b
Min2(a, b) == IF a <= b THEN a ELSE b

(***************************************************************************)
(* Bounds of the model.                                                    *)
(***************************************************************************)
\* Longest file of the fingerprint experiment, in bytes.
MaxFileLen == 10
\* Most records one search response holds.
MaxResults == 2
\* Largest download count of a record.
MaxCount == 2
\* Longest list of the selection experiment.
MaxSelLen == 4

(***************************************************************************)
(* generate_opensubtitles_hash                                             *)
(***************************************************************************)
\* struct.calcsize('<q'): 8 in the source, 2 here.
bytesize == 2
\* Number of values of a byte.
ByteRange == 256
\* The window: 65536 bytes in the source, 4 here.
Chunk == 4
\* 0xFFFFFFFFFFFFFFFF in the source: 2^(8*bytesize) - 1.
Mask == 65535
\* The width of "%016x": two digits per byte of the accumulator.
HexWidth == 4

\* filesize < 65536 * 2, shifted: a file one window long already passes
TooSmall_OneWindow(filesize) == filesize < Chunk

\* filesize < 65536 * 2
TooSmall(filesize) == filesize < Chunk * 2

\* the seek is forgotten: the second loop reads on from the end of the first
SeekPos_NoSeek(filesize) == Chunk

\* the seek lands one byte early: f.seek(max(0, filesize - 65536 - 1), 0)
SeekPos_OneEarly(filesize) == Max2(0, filesize - Chunk - 1)

\* f.seek(max(0, filesize - 65536), 0)
SeekPos(filesize) == Max2(0, filesize - Chunk)

\* f.read(n) at 0-based position pos: short at the end of the file
read(f, pos, n) == SubSeq(f, pos + 1, Min2(pos + n, Len(f)))

RECURSIVE le_unsigned(_)
le_unsigned(buffer) ==
    IF buffer = <<>> THEN 0
    ELSE Head(buffer) + ByteRange * le_unsigned(Tail(buffer))

RECURSIVE be_unsigned(_)
be_unsigned(buffer) ==
    IF buffer = <<>> THEN 0
    ELSE buffer[Len(buffer)] + ByteRange * be_unsigned(SubSeq(buffer, 1, Len(buffer) - 1))

\* struct.unpack('>q', buffer): the bytes in the wrong order
unpack_BigEndian(buffer) ==
    LET u == be_unsigned(buffer)
    IN  IF u > Mask \div 2 THEN u - (Mask + 1) ELSE u

\* struct.unpack('<q', buffer): a little-endian signed word
unpack(buffer) ==
    LET u == le_unsigned(buffer)
    IN  IF u > Mask \div 2 THEN u - (Mask + 1) ELSE u

\* for _ in range(n): buffer = f.read(bytesize); (l_value,) = unpack(buffer);
\*                    hash_value += l_value; hash_value &= Mask
\* h is None once a short read made struct.unpack raise.
RECURSIVE sum_words(_, _, _, _)
sum_words(f, pos, n, h) ==
    IF n = 0 \/ h = None THEN h
    ELSE LET buffer == read(f, pos, bytesize)
         IN  IF Len(buffer) # bytesize THEN None
             ELSE sum_words(f, pos + bytesize, n - 1,
                            Some((h[1] + unpack(buffer)) % (Mask + 1)))

HexDigits == <<"0", "1", "2", "3", "4", "5", "6", "7",
               "8", "9", "a", "b", "c", "d", "e", "f">>

\* "%x" % v
RECURSIVE format_x(_)
format_x(v) ==
    IF v < 16 THEN <<HexDigits[v + 1]>>
    ELSE format_x(v \div 16) \o <<HexDigits[(v % 16) + 1]>>

RECURSIVE zero_pad(_, _)
zero_pad(s, width) == IF Len(s) >= width THEN s ELSE zero_pad(<<"0">> \o s, width)

\* "%016x" % hash_value
format_016x(v) == zero_pad(format_x(v), HexWidth)

\* io_ok = FALSE: os.path.getsize, open or a read raised; the except clause
\* returns None.
generate_opensubtitles_hash(f, io_ok) ==
    IF ~io_ok THEN None
    ELSE LET filesize == Len(f)
         IN  IF TooSmall(filesize) THEN None
             ELSE LET first == sum_words(f, 0, Chunk \div bytesize, Some(filesize))
                      last  == sum_words(f, SeekPos(filesize), Chunk \div bytesize, first)
                  IN  IF last = None THEN None ELSE Some(format_016x(last[1]))

\* every optional str counts as true, None included
TruthyStr_Always(s) == TRUE

\* a str of zeros counts as false
TruthyStr_ZeroIsFalse(s) == s # None /\ \E i \in 1..Len(s[1]) : s[1][i] # "0"

\* Python's truth value of an optional str
TruthyStr(s) == s # None /\ Len(s[1]) > 0

(***************************************************************************)
(* The fingerprint on its own: a file is hashed, one of its bytes is       *)
(* changed, and the changed file is hashed.                                *)
(***************************************************************************)
\* Byte values the files are made of, and the values a byte is changed to.
FileBytes == {0, 255}
AlterBytes == {0, 1, 127, 128, 255}

Files == UNION {[1..n -> FileBytes] : n \in 0..MaxFileLen}

NoAnswers == [probe |-> "none", fingerprint |-> "none", hash |-> "none", name |-> "none",
              resolve |-> "none", fetch |-> "none", write |-> "none"]

HashIdle ==
    /\ hpc = "idle"
    /\ hfile = <<>>
    /\ hfp = None
    /\ hfile2 = <<>>
    /\ hfp2 = None

SelIdle ==
    /\ spc = "idle"
    /\ slist = <<>>
    /\ sbest = [raised |-> FALSE, value |-> None]

MainIdle ==
    /\ pc = "idle"
    /\ video_path = <<"v", ".mkv">>
    /\ video = <<>>
    /\ fs = <<>>
    /\ fs0 = <<>>
    /\ movie_hash = None
    /\ results = <<>>
    /\ subtitle_data = None
    /\ search_method = None
    /\ file_id = None
    /\ download_link = None
    /\ sub_content = None
    /\ requests_log = <<>>
    /\ steps = <<>>
    /\ hash_count = -1
    /\ env = NoAnswers

HashInit ==
    /\ MainIdle
    /\ SelIdle
    /\ hpc = "new"
    /\ hfile \in Files
    /\ hfp = None
    /\ hfile2 = <<>>
    /\ hfp2 = None

HashFirst ==
    /\ hpc = "new"
    /\ \E io_ok \in BOOLEAN :
         /\ hfp' = generate_opensubtitles_hash(hfile, io_ok)
         /\ hpc' = IF io_ok THEN "hashed" ELSE "io_error"
    /\ UNCHANGED <<hfile, hfile2, hfp2, mainVars, selVars>>

AlterByte ==
    /\ hpc = "hashed"
    /\ \E p \in 1..Len(hfile), b \in AlterBytes :
         /\ b # hfile[p]
         /\ hfile2' = [hfile EXCEPT ![p] = b]
    /\ hpc' = "altered"
    /\ UNCHANGED <<hfile, hfp, hfp2, mainVars, selVars>>

HashSecond ==
    /\ hpc = "altered"
    /\ hfp2' = generate_opensubtitles_hash(hfile2, TRUE)
    /\ hpc' = "compared"
    /\ UNCHANGED <<hfile, hfp, hfile2, mainVars, selVars>>

HashNext == HashFirst \/ AlterByte \/ HashSecond

HashSpec == HashInit /\ [][HashNext]_vars

(***************************************************************************)
(* Paths and the file system.  A path is <<stem, extension>>; the files    *)
(* of interest are the video and its siblings of the same stem.  A file's  *)
(* content is a sequence of integers (bytes, or the characters of a text). *)
(***************************************************************************)
Extensions == {"", ".mkv", ".srt", ".sub"}
Paths == {<<"v", e>> : e \in Extensions}

\* os.path.splitext(path)[0] + ext
with_ext(path, ext) == <<path[1], ext>>

\* os.path.isfile(path)
isfile(files, path) == files[path] # None

\* has_external_subtitles looking for ".sub" only
has_external_subtitles_SubOnly(files, path) ==
    isfile(files, with_ext(path, ".sub"))

\* has_external_subtitles that does not count the video itself as a subtitle
has_external_subtitles_OtherFile(files, path) ==
    \E ext \in {".srt", ".sub"} :
        with_ext(path, ext) # path /\ isfile(files, with_ext(path, ext))

\* has_external_subtitles(video_path)
has_external_subtitles(files, path) ==
    \E ext \in {".srt", ".sub"} : isfile(files, with_ext(path, ext))

(***************************************************************************)
(* The catalog's JSON.  A record of a search response is                   *)
(*   [attributes |-> None | Some([download_count, files]), other_keys]     *)
(* where other_keys tells whether the object has keys besides              *)
(* "attributes" ({} is the record with neither).  download_count is        *)
(* missing, null or an integer; files is missing, an empty list, not a     *)
(* list, or a list whose first element has a file_id, is an object         *)
(* without one, or is no object; file_id is the first element's file_id    *)
(* and rest the file_ids of the elements that follow it.                   *)
(***************************************************************************)
DcMissing == [t |-> "missing", v |-> 0]
DcNull == [t |-> "null", v |-> 0]
DcInt(n) == [t |-> "int", v |-> n]
DownloadCounts == {DcMissing, DcNull} \cup {DcInt(n) : n \in 1..MaxCount}

FileIds == {41, 42}
FilesList(fid) == [t |-> "list", file_id |-> fid, rest |-> <<>>]
\* A list of two descriptors: file_id 41, then file_id 42.
LongFilesList == [t |-> "list", file_id |-> 41, rest |-> <<42>>]
ValidFiles == {FilesList(fid) : fid \in FileIds}
InvalidFiles == {[t |-> k, file_id |-> 0, rest |-> <<>>] :
                    k \in {"missing", "empty_list", "not_list", "no_file_id"}}
\* a list whose first element is a number, a boolean or null
FirstNotObject == [t |-> "first_not_object", file_id |-> 0, rest |-> <<>>]

EmptyRecord == [attributes |-> None, other_keys |-> FALSE]
NoAttributesRecord == [attributes |-> None, other_keys |-> TRUE]
Record(dc, files) ==
    [attributes |-> Some([download_count |-> dc, files |-> files]), other_keys |-> TRUE]

\* The records of the model: every download count with a valid file list,
\* two records that tie on the count, every invalid file list, a list of
\* two descriptors and a list whose first element is no object.
Records ==
    {EmptyRecord, NoAttributesRecord}
    \cup {Record(dc, FilesList(41)) : dc \in DownloadCounts}
    \cup {Record(DcInt(1), f) : f \in ValidFiles \cup InvalidFiles}
    \cup {Record(DcInt(1), LongFilesList), Record(DcInt(1), FirstNotObject)}

RecordLists == UNION {[1..n -> Records] : n \in 0..MaxResults}

\* Python's truth value of a dict or None: {} and None are false
TruthyRecord(d) == d # None /\ (d[1].attributes # None \/ d[1].other_keys)

(***************************************************************************)
(* search_subtitles.  The response of GET /subtitles is one of             *)
(*   request_exception  transport error or raise_for_status()              *)
(*   json_not_object    a JSON body that is no object: data.get raises     *)
(*                      AttributeError, which the except clause lets pass  *)
(*   no_data_key        a JSON object without "data"                       *)
(*   data               a JSON object with the list "data"                 *)
(* A call returns [raised, value]: raised tells that an exception left     *)
(* the function.                                                           *)
(***************************************************************************)
SearchResponses ==
    {[t |-> k, data |-> <<>>] : k \in {"request_exception", "json_not_object", "no_data_key"}}
    \cup {[t |-> "data", data |-> l] : l \in RecordLists}

search_subtitles(response) ==
    CASE response.t = "request_exception" -> [raised |-> FALSE, value |-> <<>>]
      [] response.t = "json_not_object"   -> [raised |-> TRUE, value |-> <<>>]
      [] response.t = "no_data_key"       -> [raised |-> FALSE, value |-> <<>>]
      [] response.t = "data"              -> [raised |-> FALSE, value |-> response.data]

(***************************************************************************)
(* get_best_subtitle                                                       *)
(***************************************************************************)
\* lambda s: s.get("attributes", {}).get("download_count", 0); None for null
sort_key(s) ==
    IF s.attributes = None THEN Some(0)
    ELSE LET dc == s.attributes[1].download_count
         IN  CASE dc.t = "missing" -> Some(0)
               [] dc.t = "null"    -> None
               [] dc.t = "int"     -> Some(dc.v)

\* max() that keeps the later of two equal records
RECURSIVE max_by_key_LastWins(_, _, _)
max_by_key_LastWins(subtitles, i, best) ==
    IF i > Len(subtitles) THEN [raised |-> FALSE, value |-> Some(subtitles[best])]
    ELSE LET k == sort_key(subtitles[i])
             m == sort_key(subtitles[best])
         IN  IF k = None \/ m = None THEN [raised |-> TRUE, value |-> None]
             ELSE max_by_key_LastWins(subtitles, i + 1, IF k[1] >= m[1] THEN i ELSE best)

\* max(subtitles, key=...): the item at i replaces the best so far when its
\* key is greater; comparing None with anything raises TypeError.
RECURSIVE max_by_key(_, _, _)
max_by_key(subtitles, i, best) ==
    IF i > Len(subtitles) THEN [raised |-> FALSE, value |-> Some(subtitles[best])]
    ELSE LET k == sort_key(subtitles[i])
             m == sort_key(subtitles[best])
         IN  IF k = None \/ m = None THEN [raised |-> TRUE, value |-> None]
             ELSE max_by_key(subtitles, i + 1, IF k[1] > m[1] THEN i ELSE best)

get_best_subtitle(subtitles) ==
    IF subtitles = <<>> THEN [raised |-> FALSE, value |-> None]
    ELSE max_by_key(subtitles, 2, 1)

(***************************************************************************)
(* get_best_subtitle on its own: a list of records is handed to it.        *)
(***************************************************************************)
\* The records of the experiment: the counts 1, 3 and 7, a missing and a
\* null count, two records that tie on 7 and two that tie on a missing
\* count, a record without attributes and the record {}.
SelCounts == {DcMissing, DcNull, DcInt(1), DcInt(3), DcInt(7)}
SelRecords ==
    {Record(dc, FilesList(41)) : dc \in SelCounts}
    \cup {Record(DcInt(7), FilesList(42)), Record(DcMissing, FilesList(42))}
    \cup {NoAttributesRecord, EmptyRecord}
SelLists == UNION {[1..n -> SelRecords] : n \in 0..MaxSelLen}

SelInit ==
    /\ MainIdle
    /\ HashIdle
    /\ spc = "new"
    /\ slist \in SelLists
    /\ sbest = [raised |-> FALSE, value |-> None]

Select ==
    /\ spc = "new"
    /\ sbest' = get_best_subtitle(slist)
    /\ spc' = "selected"
    /\ UNCHANGED <<slist, mainVars, hashVars>>

SelNext == Select

SelSpec == SelInit /\ [][SelNext]_vars

(***************************************************************************)
(* has_embedded_subtitles.  ffmpeg.probe answers with streams of which     *)
(* one is a subtitle, with streams of which none is, raises ffmpeg.Error   *)
(* (ffprobe exits non-zero), or raises another exception (ffprobe is not   *)
(* installed: FileNotFoundError from the process launch), which the        *)
(* except clause does not catch.                                           *)
(***************************************************************************)
ProbeOutcomes == {"subtitle_stream", "no_subtitle_stream", "ffmpeg_error", "other_exception"}

has_embedded_subtitles(outcome) ==
    CASE outcome = "subtitle_stream"    -> [raised |-> FALSE, value |-> TRUE]
      [] outcome = "no_subtitle_stream" -> [raised |-> FALSE, value |-> FALSE]
      [] outcome = "ffmpeg_error"       -> [raised |-> FALSE, value |-> FALSE]
      [] outcome = "other_exception"    -> [raised |-> TRUE, value |-> FALSE]

(***************************************************************************)
(* main: one search and the selection that follows it.                     *)
(***************************************************************************)
\* results = search_subtitles(search_params)
\* if results: subtitle_data = get_best_subtitle(results)
search_and_select(response, old_results, old_data) ==
    LET r == search_subtitles(response)
    IN  IF r.raised
        THEN [crashed |-> TRUE, results |-> old_results, subtitle_data |-> old_data]
        ELSE IF r.value = <<>>
        THEN [crashed |-> FALSE, results |-> <<>>, subtitle_data |-> old_data]
        ELSE LET b == get_best_subtitle(r.value)
             IN  IF b.raised
                 THEN [crashed |-> TRUE, results |-> r.value, subtitle_data |-> old_data]
                 ELSE [crashed |-> FALSE, results |-> r.value, subtitle_data |-> b.value]

\* the download is started whatever the searches gave
after_name_search_Always(data) == "download"

\* if subtitle_data: download_and_save_subtitle(...) else: "No English subtitles found"
after_name_search(data) == IF TruthyRecord(data) THEN "download" ELSE "DONE_NOT_FOUND"

\* the hash search is repeated when it selected nothing
after_hash_search_Retry(data) == IF TruthyRecord(data) THEN "download" ELSE "search_hash"

\* if not subtitle_data: (search by filename), else line 205 leads to the download
after_hash_search(data) == IF TruthyRecord(data) THEN "download" ELSE "search_name"

\* files = subtitle_data.get("attributes", {}).get("files")
files_of(record) ==
    IF record.attributes = None THEN [t |-> "missing", file_id |-> 0, rest |-> <<>>]
    ELSE record.attributes[1].files

\* not (not files or not isinstance(files, list) or 'file_id' not in files[0])
has_file_id(files) == files.t = "list"

\* 'file_id' not in files[0] raises TypeError when files[0] is a number, a
\* boolean or null; line 116 is outside the try block.
file_id_test_raises(files) == files.t = "first_not_object"

\* file_id = files[0]['file_id']
first_file_id(files) == files.file_id

\* the subtitle is saved beside the video as ".sub"
subtitle_path_of_Sub(path) == with_ext(path, ".sub")

\* subtitle_path = os.path.splitext(video_path)[0] + ".srt"
subtitle_path_of(path) == with_ext(path, ".srt")

(***************************************************************************)
(* One run of main().                                                      *)
(***************************************************************************)
\* The texts a fetch returns, the content of a subtitle file that exists
\* before the run, the video files and the extensions of the video path.
Texts == {<<>>, <<49>>, <<49, 10>>}
OldText == <<79>>
\* The video files: one too small to hash, one whose hash is 0009 and one
\* whose hash is 0000; the video paths: the three with the extension ".mkv"
\* and the second also with no extension, ".srt" and ".sub".
SmallVideo == <<7, 7, 7>>
PlainVideo == <<1, 0, 0, 0, 0, 0, 0, 0>>
ZeroHashVideo == <<248, 255, 0, 0, 0, 0, 0, 0>>
VideoFiles == {SmallVideo, PlainVideo, ZeroHashVideo}
VideoInputs ==
    {<<".mkv", v>> : v \in VideoFiles} \cup {<<e, PlainVideo>> : e \in {"", ".srt", ".sub"}}

ResolveOutcomes == {"request_exception", "bad_json", "json_not_object", "no_link", "link"}
FetchOutcomes == {"request_exception", "text"}

Init ==
    /\ HashIdle
    /\ SelIdle
    /\ pc = "start"
    /\ \E input \in VideoInputs :
         /\ video_path = <<"v", input[1]>>
         /\ video = input[2]
    /\ fs0 \in {f \in [Paths -> {None, Some(OldText), Some(video)}] :
                 /\ f[video_path] \in {None, Some(video)}
                 /\ \A p \in Paths \ {video_path} :
                      /\ f[p] \in {None, Some(OldText)}
                      /\ p[2] \notin {".srt", ".sub"} => f[p] = None}
    /\ fs = fs0
    /\ movie_hash = None
    /\ results = <<>>
    /\ subtitle_data = None
    /\ search_method = None
    /\ file_id = None
    /\ download_link = None
    /\ sub_content = None
    /\ requests_log = <<>>
    /\ steps = <<>>
    /\ hash_count = -1
    /\ env = NoAnswers

\* main, lines 160-173: the preconditions
Start ==
    /\ pc = "start"
    /\ \E api_key \in BOOLEAN :
         pc' = IF api_key /\ isfile(fs, video_path) THEN "check_external" ELSE "EXIT_1"
    /\ UNCHANGED <<video_path, video, fs, fs0, movie_hash, results, subtitle_data,
                   search_method, file_id, download_link, sub_content, requests_log,
                   steps, hash_count, env, hashVars, selVars>>

\* main, line 177, left operand of the or
CheckExternal ==
    /\ pc = "check_external"
    /\ pc' = IF has_external_subtitles(fs, video_path) THEN "DONE_SKIPPED" ELSE "probe"
    /\ UNCHANGED <<video_path, video, fs, fs0, movie_hash, results, subtitle_data,
                   search_method, file_id, download_link, sub_content, requests_log,
                   steps, hash_count, env, hashVars, selVars>>

\* main, line 177, right operand of the or
Probe ==
    /\ pc = "probe"
    /\ \E outcome \in ProbeOutcomes :
         LET r == has_embedded_subtitles(outcome)
         IN  /\ env' = [env EXCEPT !.probe = outcome]
             /\ pc' = IF r.raised THEN "CRASHED"
                      ELSE IF r.value THEN "DONE_SKIPPED" ELSE "fingerprint"
    /\ UNCHANGED <<video_path, video, fs, fs0, movie_hash, results, subtitle_data,
                   search_method, file_id, download_link, sub_content, requests_log,
                   steps, hash_count, hashVars, selVars>>

\* main, lines 185-186
Fingerprint ==
    /\ pc = "fingerprint"
    /\ \E io_ok \in BOOLEAN :
         /\ movie_hash' = generate_opensubtitles_hash(video, io_ok)
         /\ env' = [env EXCEPT !.fingerprint = IF io_ok THEN "ok" ELSE "io_error"]
         /\ pc' = IF TruthyStr(movie_hash') THEN "search_hash" ELSE "search_name"
    /\ steps' = Append(steps, "fingerprint")
    /\ UNCHANGED <<video_path, video, fs, fs0, results, subtitle_data,
                   search_method, file_id, download_link, sub_content, requests_log,
                   hash_count, hashVars, selVars>>

\* main, lines 187-193
SearchByHash ==
    /\ pc = "search_hash"
    /\ \E response \in SearchResponses :
         LET s == search_and_select(response, results, subtitle_data)
         IN  /\ env' = [env EXCEPT !.hash = response.t]
             /\ hash_count' = Len(response.data)
             /\ results' = s.results
             /\ subtitle_data' = s.subtitle_data
             /\ search_method' = IF ~s.crashed /\ s.results # <<>> THEN Some("hash")
                                 ELSE search_method
             /\ pc' = IF s.crashed THEN "CRASHED" ELSE after_hash_search(s.subtitle_data)
    /\ requests_log' = Append(requests_log, "search_hash")
    /\ steps' = Append(steps, "search_hash")
    /\ UNCHANGED <<video_path, video, fs, fs0, movie_hash, file_id, download_link,
                   sub_content, hashVars, selVars>>

\* main, lines 196-209
SearchByName ==
    /\ pc = "search_name"
    /\ \E response \in SearchResponses :
         LET s == search_and_select(response, results, subtitle_data)
         IN  /\ env' = [env EXCEPT !.name = response.t]
             /\ results' = s.results
             /\ subtitle_data' = s.subtitle_data
             /\ search_method' = IF ~s.crashed /\ s.results # <<>> THEN Some("filename")
                                 ELSE search_method
             /\ pc' = IF s.crashed THEN "CRASHED" ELSE after_name_search(s.subtitle_data)
    /\ requests_log' = Append(requests_log, "search_name")
    /\ steps' = Append(steps, "search_name")
    /\ UNCHANGED <<video_path, video, fs, fs0, movie_hash, file_id, download_link,
                   sub_content, hash_count, hashVars, selVars>>

\* download_and_save_subtitle, lines 115-135
ResolveDownload ==
    /\ pc = "download"
    /\ subtitle_data # None
    /\ LET files == files_of(subtitle_data[1])
       IN  IF file_id_test_raises(files)
           THEN /\ pc' = "CRASHED"
                /\ UNCHANGED <<file_id, download_link, requests_log, steps, env>>
           ELSE IF ~has_file_id(files)
           THEN /\ pc' = "DONE_ERROR"
                /\ UNCHANGED <<file_id, download_link, requests_log, steps, env>>
           ELSE /\ file_id' = Some(first_file_id(files))
                /\ requests_log' = Append(requests_log, "resolve")
                /\ steps' = Append(steps, "resolve")
                /\ \E outcome \in ResolveOutcomes :
                     /\ env' = [env EXCEPT !.resolve = outcome]
                     /\ IF outcome = "link"
                        THEN download_link' = Some("link") /\ pc' = "fetch"
                        ELSE UNCHANGED download_link /\ pc' = "DONE_ERROR"
    /\ UNCHANGED <<video_path, video, fs, fs0, movie_hash, results, subtitle_data,
                   search_method, sub_content, hash_count, hashVars, selVars>>

\* the output file is opened before the subtitle is fetched
Fetch_OpenFirst ==
    /\ pc = "fetch"
    /\ requests_log' = Append(requests_log, "fetch")
    /\ steps' = Append(steps, "fetch")
    /\ \E outcome \in FetchOutcomes :
         /\ env' = [env EXCEPT !.fetch = outcome]
         /\ fs' = [fs EXCEPT ![subtitle_path_of(video_path)] = Some(<<>>)]
         /\ IF outcome = "text"
            THEN \E text \in Texts : sub_content' = Some(text) /\ pc' = "write"
            ELSE UNCHANGED sub_content /\ pc' = "DONE_ERROR"
    /\ UNCHANGED <<video_path, video, fs0, movie_hash, results, subtitle_data,
                   search_method, file_id, download_link, hash_count, hashVars, selVars>>

\* download_and_save_subtitle, lines 137-141
Fetch ==
    /\ pc = "fetch"
    /\ requests_log' = Append(requests_log, "fetch")
    /\ steps' = Append(steps, "fetch")
    /\ \E outcome \in FetchOutcomes :
         /\ env' = [env EXCEPT !.fetch = outcome]
         /\ IF outcome = "text"
            THEN \E text \in Texts : sub_content' = Some(text) /\ pc' = "write"
            ELSE UNCHANGED sub_content /\ pc' = "DONE_ERROR"
    /\ UNCHANGED <<video_path, video, fs, fs0, movie_hash, results, subtitle_data,
                   search_method, file_id, download_link, hash_count, hashVars, selVars>>

\* download_and_save_subtitle, lines 143-153.  open(path, "w") fails and
\* leaves the file system as it is, or creates or truncates the file; then
\* the write (or the flush of the close) fails, leaving a proper prefix of
\* the text, or succeeds.
Write ==
    /\ pc = "write"
    /\ LET subtitle_path == subtitle_path_of(video_path)
           text == sub_content[1]
       IN  \/ /\ env' = [env EXCEPT !.write = "open_error"]
              /\ pc' = "DONE_ERROR"
              /\ UNCHANGED fs
           \/ /\ env' = [env EXCEPT !.write = "write_error"]
              /\ pc' = "DONE_ERROR"
              /\ \E n \in 0..(Len(text) - 1) :
                   fs' = [fs EXCEPT ![subtitle_path] = Some(SubSeq(text, 1, n))]
           \/ /\ env' = [env EXCEPT !.write = "ok"]
              /\ pc' = "DONE_DOWNLOADED"
              /\ fs' = [fs EXCEPT ![subtitle_path] = Some(text)]
    /\ steps' = Append(steps, "write")
    /\ UNCHANGED <<video_path, video, fs0, movie_hash, results, subtitle_data,
                   search_method, file_id, download_link, sub_content, requests_log,
                   hash_count, hashVars, selVars>>

Next ==
    \/ Start
    \/ CheckExternal
    \/ Probe
    \/ Fingerprint
    \/ SearchByHash
    \/ SearchByName
    \/ ResolveDownload
    \/ Fetch
    \/ Write

Spec == Init /\ [][Next]_vars

(***************************************************************************)
(* Properties of a run (checked under Spec).                               *)
(***************************************************************************)
SrtPath == <<"v", ".srt">>
FourTerminals == {"DONE_SKIPPED", "DONE_DOWNLOADED", "DONE_NOT_FOUND", "DONE_ERROR"}
Ended == pc \in FourTerminals \cup {"CRASHED", "EXIT_1"}
InDownload == pc \in {"download", "fetch", "write", "DONE_DOWNLOADED", "DONE_ERROR"}
Searches == {"search_hash", "search_name"}

\* The download count the specification gives a record: zero when missing.
CountOf(r) ==
    IF r.attributes = None THEN 0
    ELSE IF r.attributes[1].download_count.t = "int"
         THEN r.attributes[1].download_count.v ELSE 0

\* rec is the first record of list with the largest count.
IsFirstMax(list, rec) ==
    \E i \in 1..Len(list) :
        /\ list[i] = rec
        /\ \A j \in 1..Len(list) : CountOf(list[j]) <= CountOf(rec)
        /\ \A j \in 1..(i - 1) : CountOf(list[j]) < CountOf(rec)

\* C1: the download step is entered, and resolve and fetch requests are
\* issued, only after a search returned a non-empty result of which one
\* record was selected.
C1_DownloadOnlyAfterSelection ==
    /\ (InDownload \/ \E i \in 1..Len(requests_log) : requests_log[i] \notin Searches) =>
         /\ results # <<>>
         /\ subtitle_data # None
         /\ \E i \in 1..Len(results) : results[i] = subtitle_data[1]
    /\ \A i \in 1..Len(requests_log) :
         /\ requests_log[i] = "resolve" =>
              /\ i > 1
              /\ requests_log[i - 1] \in Searches
         /\ requests_log[i] = "fetch" =>
              /\ i > 1
              /\ requests_log[i - 1] = "resolve"

C1_Witness ==
    /\ pc = "write"
    /\ requests_log = <<"search_hash", "search_name", "resolve", "fetch">>
    /\ Len(results) = 2

\* C2: when the ".srt" sibling exists as the run starts, the run goes from
\* the check to DONE_SKIPPED, issues no request and writes no file.
C2_SrtSiblingSkips ==
    (isfile(fs0, SrtPath) /\ pc \notin {"start", "EXIT_1"}) =>
        /\ pc \in {"check_external", "DONE_SKIPPED"}
        /\ requests_log = <<>>
    /\ steps = <<>>
        /\ fs = fs0

C2_Witness ==
    /\ pc = "DONE_SKIPPED"
    /\ video_path = <<"v", ".mkv">>
    /\ fs0[SrtPath] = Some(OldText)
    /\ fs0[<<"v", ".sub">>] = None

\* C3: when the hash search returned no record and the filename search at
\* least one, the run is in the download step with the first most
\* downloaded record of the filename search.
C3_FilenameFallbackDownloads ==
    (hash_count = 0 /\ env.name = "data" /\ results # <<>>) =>
        /\ InDownload
        /\ subtitle_data # None
        /\ IsFirstMax(results, subtitle_data[1])

\* C4: when resolve_download gives no link or the fetch fails, the run ends
\* in DONE_ERROR and the file system is as it was before the run.
C4_NoLinkOrFetchFailureLeavesFiles ==
    ( \/ env.resolve \in {"request_exception", "bad_json", "json_not_object", "no_link"}
      \/ env.fetch = "request_exception" ) =>
        /\ pc = "DONE_ERROR"
        /\ env.write = "none"
        /\ fs = fs0

C4_Witness ==
    /\ pc = "DONE_ERROR"
    /\ env.resolve = "link"
    /\ env.fetch = "request_exception"

\* C5: an I/O error of the final write ends the run in DONE_ERROR with the
\* file system as before; a run that ended left the subtitle file either
\* with the whole fetched text or as it was.
C5_NeverPartiallyWritten ==
    /\ env.write \in {"open_error", "write_error"} =>
         /\ pc = "DONE_ERROR"
         /\ fs = fs0
    /\ Ended =>
         \/ fs = fs0
         \/ /\ sub_content # None
            /\ fs = [fs0 EXCEPT ![SrtPath] = sub_content]

\* C6: a run that passed the preconditions and can take no further step is
\* in one of the four terminal states.
C6_EndsInOneOfFour ==
    (pc \notin {"start", "EXIT_1"} /\ ~ENABLED Next) => pc \in FourTerminals

\* C7 as stated: a run in which the fetch returned a text has, when it
\* ends, written exactly that text and ended in DONE_DOWNLOADED.
C7_FetchedTextAlwaysWritten ==
    (Ended /\ env.fetch = "text") =>
        /\ pc = "DONE_DOWNLOADED"
        /\ fs = [fs0 EXCEPT ![SrtPath] = sub_content]

\* C7, amended: a run in which the fetch returned a text and the final
\* write raised no I/O error has written exactly that text to the ".srt"
\* sibling, changed no other file, and ended in DONE_DOWNLOADED; no other
\* run ends in DONE_DOWNLOADED.
C7_WritesExactlyFetchedText ==
    /\ (env.fetch = "text" /\ env.write = "ok") =>
         /\ pc = "DONE_DOWNLOADED"
         /\ fs = [fs0 EXCEPT ![SrtPath] = sub_content]
    /\ pc = "DONE_DOWNLOADED" =>
         /\ env.fetch = "text"
         /\ env.write = "ok"
         /\ fs = [fs0 EXCEPT ![SrtPath] = sub_content]

C7_Witness ==
    /\ pc = "DONE_DOWNLOADED"
    /\ env.probe = "no_subtitle_stream"
    /\ sub_content = Some(<<49, 10>>)
    /\ fs[SrtPath] = Some(<<49, 10>>)
    /\ fs0[SrtPath] = None

(***************************************************************************)
(* Properties of the fingerprint (checked under HashSpec).                 *)
(***************************************************************************)
\* The first and the last window of a file, as the claims name them.
FirstWindow(f) == SubSeq(f, 1, Chunk)
LastWindow(f) == SubSeq(f, Len(f) - Chunk + 1, Len(f))

RECURSIVE Pow(_, _)
Pow(b, e) == IF e = 0 THEN 1 ELSE b * Pow(b, e - 1)

\* The little-endian signed integer of bytesize bytes at 0-based offset off.
SignedAt(f, off) ==
    LET RECURSIVE Digits(_)
        Digits(i) == IF i = 0 THEN 0
                     ELSE f[off + i] * Pow(ByteRange, i - 1) + Digits(i - 1)
        u == Digits(bytesize)
    IN  IF f[off + bytesize] >= ByteRange \div 2 THEN u - Pow(ByteRange, bytesize) ELSE u

\* The unmasked sum of the n integers that start at offset off.
RECURSIVE SignedSum(_, _, _)
SignedSum(f, off, n) ==
    IF n = 0 THEN 0
    ELSE SignedAt(f, off + (n - 1) * bytesize) + SignedSum(f, off, n - 1)

\* The value the claim gives: length plus both sums, masked once.
ExpectedValue(f) ==
    (Len(f) + SignedSum(f, 0, Chunk \div bytesize)
            + SignedSum(f, Max2(0, Len(f) - Chunk), Chunk \div bytesize))
        % Pow(ByteRange, bytesize)

LowerHex == {"0", "1", "2", "3", "4", "5", "6", "7", "8", "9",
             "a", "b", "c", "d", "e", "f"}
DigitValue(c) == CHOOSE v \in 0..15 : HexDigits[v + 1] = c
RECURSIVE HexValue(_)
HexValue(s) ==
    IF s = <<>> THEN 0
    ELSE 16 * HexValue(SubSeq(s, 1, Len(s) - 1)) + DigitValue(s[Len(s)])

\* C8: a file shorter than two windows has no fingerprint; a file of at
\* least two windows whose reads succeed has one.
C8_SmallAbsentLargePresent ==
    /\ hpc \in {"hashed", "io_error", "altered", "compared"} =>
         /\ Len(hfile) < 2 * Chunk => hfp = None
         /\ (Len(hfile) >= 2 * Chunk /\ hpc # "io_error") => hfp # None
    /\ hpc = "compared" =>
         /\ Len(hfile2) < 2 * Chunk => hfp2 = None
         /\ Len(hfile2) >= 2 * Chunk => hfp2 # None

C8_Witness ==
    /\ hpc = "hashed"
    /\ Len(hfile) = 2 * Chunk - 1
    /\ hfp = None

\* C9: the fingerprint of a file of at least two windows is the length plus
\* the signed little-endian integers of the first window plus those of the
\* window at max(0, length - window), modulo 2^(accumulator width), printed
\* as exactly HexWidth lowercase zero-padded hexadecimal digits.
C9_Of(f, fp) ==
    (Len(f) >= 2 * Chunk /\ fp # None) =>
        /\ Len(fp[1]) = HexWidth
        /\ \A i \in 1..Len(fp[1]) : fp[1][i] \in LowerHex
        /\ HexValue(fp[1]) = ExpectedValue(f)

C9_FingerprintValue ==
    /\ hpc \in {"hashed", "altered", "compared"} => C9_Of(hfile, hfp)
    /\ hpc = "compared" => C9_Of(hfile2, hfp2)

\* A file one byte longer than two windows (the last window is not aligned
\* on a word) with a negative word in its first window.
C9_Witness ==
    /\ hpc = "hashed"
    /\ Len(hfile) = 2 * Chunk + 1
    /\ hfile[bytesize] = 255
    /\ SignedAt(hfile, 0) < 0
    /\ hfp # None

\* C10: two files of at least two windows with the same length, the same
\* first window and the same last window have the same fingerprint; a byte
\* changed strictly between the windows leaves the fingerprint unchanged.
MiddleVariants(f) ==
    { FirstWindow(f) \o m \o LastWindow(f) :
        m \in [1..(Len(f) - 2 * Chunk) -> AlterBytes] }

C10_MiddleIgnored ==
    /\ ( /\ hpc = "compared"
         /\ Len(hfile) >= 2 * Chunk
         /\ Len(hfile2) = Len(hfile)
         /\ FirstWindow(hfile2) = FirstWindow(hfile)
         /\ LastWindow(hfile2) = LastWindow(hfile) ) => hfp2 = hfp
    /\ (hpc = "hashed" /\ Len(hfile) >= 2 * Chunk) =>
         \A g \in MiddleVariants(hfile) : generate_opensubtitles_hash(g, TRUE) = hfp

C10_Witness ==
    /\ hpc = "compared"
    /\ Len(hfile) > 2 * Chunk
    /\ hfile2 # hfile
    /\ FirstWindow(hfile2) = FirstWindow(hfile)
    /\ LastWindow(hfile2) = LastWindow(hfile)
    /\ hfp # None
    /\ hfp2 = hfp

\* C11: for a file of at least two windows, changing one byte of the first
\* or of the last window, the length kept, changes the fingerprint.
\* Checked for the byte changes AlterByte makes and, for the files of two
\* windows and of two windows and a byte, for every byte of a window and
\* every new value with one bit set, one bit cleared or next to a sign change.
WideBytes == {0, 1, 2, 4, 8, 16, 32, 64, 127, 128, 129, 191, 223, 239, 247, 251, 253, 254, 255}
InWindow(f, p) == p <= Chunk \/ p > Len(f) - Chunk

C11_WindowByteChangesFingerprint ==
    /\ ( /\ hpc = "compared"
         /\ Len(hfile) >= 2 * Chunk
         /\ \/ FirstWindow(hfile2) # FirstWindow(hfile)
            \/ LastWindow(hfile2) # LastWindow(hfile) ) => hfp2 # hfp
    /\ (hpc = "hashed" /\ Len(hfile) \in {2 * Chunk, 2 * Chunk + 1}) =>
         \A p \in 1..Len(hfile), b \in WideBytes :
             (InWindow(hfile, p) /\ b # hfile[p]) =>
                 generate_opensubtitles_hash([hfile EXCEPT ![p] = b], TRUE) # hfp

C11_Witness ==
    /\ hpc = "compared"
    /\ Len(hfile) = 2 * Chunk + 1
    /\ hfile2[Len(hfile)] # hfile[Len(hfile)]
    /\ hfp # None
    /\ hfp2 # None
    /\ hfp2 # hfp

(***************************************************************************)
(* Properties of get_best_subtitle (checked under SelSpec).                *)
(***************************************************************************)
\* The record has no download count: no attributes, no download_count key,
\* or a null download_count.
LacksCount(r) ==
    \/ r.attributes = None
    \/ r.attributes[1].download_count.t \in {"missing", "null"}

Selected == ~sbest.raised /\ sbest.value # None /\ IsFirstMax(slist, sbest.value[1])

\* C12: select_best of the empty list is absent; of a non-empty list it is
\* the first record, in input order, of the largest download count.
C12_SelectsFirstMaximum ==
    spc = "selected" =>
        IF slist = <<>> THEN ~sbest.raised /\ sbest.value = None ELSE Selected

\* C17: on a non-empty list in which some record has no download count
\* (no attributes, no download_count key, or a null value) select_best does
\* not fail and returns the first maximal record, that count taken as zero.
C17_MissingCountIsZero ==
    ( /\ spc = "selected"
      /\ slist # <<>>
      /\ \E i \in 1..Len(slist) : LacksCount(slist[i]) ) => Selected

(***************************************************************************)
(* Properties of the failure paths and of the order of the steps (checked  *)
(* under Spec).                                                            *)
(***************************************************************************)
Requested(kind) == \E i \in 1..Len(requests_log) : requests_log[i] = kind
FirstRequestIs(kind) == requests_log # <<>> /\ requests_log[1] = kind
Took(step) == \E i \in 1..Len(steps) : steps[i] = step

\* C13: whenever the media probe failed (ffprobe exited with an error, or
\* could not be started), the run is at the fingerprint step or has taken
\* it: it neither crashed at the probe nor ended in DONE_SKIPPED.
C13_ProbeFailureNonFatal ==
    env.probe \in {"ffmpeg_error", "other_exception"} =>
        /\ pc # "DONE_SKIPPED"
        /\ pc = "fingerprint" \/ Took("fingerprint")

\* C14: a hash search that failed or returned nothing leaves no results and
\* leads to the filename search; a filename search that failed or returned
\* nothing ends the run in DONE_NOT_FOUND.
C14_FailedSearchIsEmpty ==
    /\ (env.hash # "none" /\ hash_count = 0 /\ env.name = "none") =>
            pc = "search_name" /\ results = <<>>
    /\ (env.name # "none" /\ (env.name # "data" \/ results = <<>>)) =>
            pc = "DONE_NOT_FOUND"

\* C15: a hash search is issued only with a fingerprint; when the
\* fingerprint is absent (file shorter than two windows, or an I/O error)
\* no hash search is issued and the filename search is the next step.
C15_HashSearchOnlyWithFingerprint ==
    /\ (pc = "search_hash" \/ Requested("search_hash")) => movie_hash # None
    /\ (env.fingerprint = "io_error" \/ (env.fingerprint = "ok" /\ Len(video) < 2 * Chunk)) =>
            movie_hash = None
    /\ (env.fingerprint # "none" /\ movie_hash = None) =>
            /\ ~Requested("search_hash")
            /\ pc = "search_name" \/ FirstRequestIs("search_name")

\* A video of two windows whose read failed: the filename search was the
\* first request and it selected a record.
C15_Witness ==
    /\ video = PlainVideo
    /\ env.fingerprint = "io_error"
    /\ movie_hash = None
    /\ requests_log = <<"search_name">>
    /\ pc = "download"

ZeroFingerprint == [i \in 1..HexWidth |-> "0"]

\* C16: for a file of at least two windows whose accumulator is zero, the
\* fingerprint is the present value of HexWidth zeros and the hash search
\* is the next step.
C16_ZeroFingerprintIsPresent ==
    (env.fingerprint = "ok" /\ Len(video) >= 2 * Chunk /\ ExpectedValue(video) = 0) =>
        /\ movie_hash = Some(ZeroFingerprint)
        /\ pc = "search_hash" \/ FirstRequestIs("search_hash")

C16_Witness ==
    /\ video = ZeroHashVideo
    /\ ExpectedValue(video) = 0
    /\ movie_hash = Some(ZeroFingerprint)
    /\ FirstRequestIs("search_hash")
    /\ env.hash = "data"

\* C18: once the download of the selected record has been entered, a
\* record without a usable first file descriptor has ended the run in
\* DONE_ERROR with no resolve or fetch request and no file written; any
\* other record had resolve called with the file_id of its first descriptor.
C18_NoDescriptorEndsInError ==
    (TruthyRecord(subtitle_data) /\ pc # "download") =>
        LET files == files_of(subtitle_data[1])
        IN  IF files.t # "list"
            THEN /\ pc = "DONE_ERROR"
                 /\ ~Requested("resolve") /\ ~Requested("fetch")
                 /\ fs = fs0
            ELSE /\ Requested("resolve")
                 /\ file_id = Some(files.file_id)

StepOrder == <<"fingerprint", "search_hash", "search_name", "resolve", "fetch", "write">>
Rank(step) == CHOOSE k \in 1..Len(StepOrder) : StepOrder[k] = step

\* C19: the steps taken so far are in the order fingerprint, hash search,
\* filename search, resolve, fetch, write, each at most once.
C19_EachStepOnceInOrder ==
    \A i, j \in 1..Len(steps) : i < j => Rank(steps[i]) < Rank(steps[j])

\* A run in which the hash search selected nothing and all six steps
\* were taken.
C19_Witness == steps = StepOrder /\ pc = "DONE_DOWNLOADED"

\* C20: the video file is as it was before the run, no path other than
\* the ".srt" sibling has changed, and once the write step was taken the
\* subtitle path is not the video path.
C20_VideoNeverMutated ==
    /\ fs[video_path] = fs0[video_path]
    /\ \A p \in Paths \ {subtitle_path_of(video_path)} : fs[p] = fs0[p]
    /\ Took("write") => subtitle_path_of(video_path) # video_path

\* A video path without extension whose subtitle was written.
C20_Witness ==
    /\ video_path = <<"v", "">>
    /\ pc = "DONE_DOWNLOADED"
    /\ fs[SrtPath] # fs0[SrtPath]
    /\ fs[video_path] = Some(video)

====
